---- MODULE Spec2Model ----
(***************************************************************************)
(* The streaming compilation client of frontend/js/compiler.js             *)
(* (compileWithStreaming): one POST to the compile endpoint, an SSE body   *)
(* read chunk by chunk, line-buffered, each `data: ` line parsed as JSON   *)
(* and dispatched to a callback, and a single-fire completion latch.       *)
(*                                                                         *)
(* Beside it: compileSync, checkHealth and connect, and the controller of   *)
(* the page (handleCompile, checkBackendHealth) that drives them.          *)
(*                                                                         *)
(* Text is a sequence of one-character strings.  A response body is a      *)
(* sequence of bytes: an ASCII byte is written as its character, the two   *)
(* bytes of the UTF-8 encoding of U+00E9 as "0xC3" and "0xA9".             *)
(***************************************************************************)
EXTENDS Integers, Sequences, FiniteSets, TLC

\* the invocations of compileWithStreaming
VARIABLES pc, status, body, pos, stream, decoder, buffer, completeCalled, calls,
          callbacks, requests

\* the invocation of compileSync, and those of checkHealth and connect
VARIABLES sync, probe

\* the controller: the state of the page, and the activations of handleCompile
VARIABLES page, locals

invocations == <<pc, status, body, pos, stream, decoder, buffer, completeCalled, calls,
                 callbacks, requests>>

\* the state outside the invocations of compileWithStreaming
outside == <<sync, probe>>

\* the state of the controller
controller == <<page, locals>>

vars == <<invocations, outside, controller>>

----------------------------------------------------------------------------
(* Bounds of the model                                                     *)

\* frames (lines with their terminators) in one response body, Spec
MaxEvents == 2
\* frames in one response body when two calls run side by side, SpecPair
MaxPairEvents == 2
\* callbacks a caller leaves out of the callback set, SpecOptional
MaxMissing == 2
\* health checks of the timer in flight at a time, SpecController
MaxProbes == 1
MaxTailEvents == 1

----------------------------------------------------------------------------
(* Literal texts of the source and of the protocol                         *)

DataPrefix == <<"d", "a", "t", "a", ":", " ">>
PrefixLen == 6
TypeKey == <<"t", "y", "p", "e">>
ContentKey == <<"c", "o", "n", "t", "e", "n", "t">>
MessageKey == <<"m", "e", "s", "s", "a", "g", "e">>
LogType == <<"l", "o", "g">>
BlueprintType == <<"b", "l", "u", "e", "p", "r", "i", "n", "t">>
JsonType == <<"j", "s", "o", "n">>
ErrorType == <<"e", "r", "r", "o", "r">>
StatusType == <<"s", "t", "a", "t", "u", "s">>
QueueType == <<"q", "u", "e", "u", "e">>
EndType == <<"e", "n", "d">>
ServerErrorText == <<"S", "e", "r", "v", "e", "r", " ", "e", "r", "r", "o", "r", ":", " ">>
NL == "\n"
Quote == "\""

\* CONFIG.endpoints
CompileEndpoint == <<"/", "c", "o", "m", "p", "i", "l", "e">>
CompileSyncEndpoint == <<"/", "c", "o", "m", "p", "i", "l", "e", "/", "s", "y", "n", "c">>
HealthEndpoint == <<"/", "h", "e", "a", "l", "t", "h">>
ConnectEndpoint == <<"/", "c", "o", "n", "n", "e", "c", "t">>

\* String(x) of a JS null, true, false and of a plain object
NullText == <<"n", "u", "l", "l">>
TrueText == <<"t", "r", "u", "e">>
FalseText == <<"f", "a", "l", "s", "e">>
ObjectText == <<"[", "o", "b", "j", "e", "c", "t", " ", "O", "b", "j", "e", "c", "t", "]">>

\* message of the TypeError of `errorData.message` when errorData is null (V8's wording)
NullMessageError == <<"C", "a", "n", "n", "o", "t", " ", "r", "e", "a", "d", " ", "p", "r", "o", "p", "e", "r", "t", "i", "e", "s", " ", "o", "f", " ", "n", "u", "l", "l", " ", "(", "r", "e", "a", "d", "i", "n", "g", " ", "'", "m", "e", "s", "s", "a", "g", "e", "'", ")">>

----------------------------------------------------------------------------
(* JS values: undefined, null, booleans, numbers, strings, plain objects.  *)
(* s is the text of a string (the digits of a number, the word of a        *)
(* boolean); m is the member list of an object, <<key text, value>> pairs  *)
(* in source order.                                                        *)

Undefined == [kind |-> "undefined", s |-> <<>>, m |-> <<>>]
Null == [kind |-> "null", s |-> <<>>, m |-> <<>>]
Bool(t) == [kind |-> "bool", s |-> t, m |-> <<>>]
Num(t) == [kind |-> "num", s |-> t, m |-> <<>>]
Str(t) == [kind |-> "str", s |-> t, m |-> <<>>]
Obj(members) == [kind |-> "obj", s |-> <<>>, m |-> members]

\* `v.key`: the last member of that name of an object, undefined on any other
\* value that has properties (the caller decides what null and undefined throw)
RECURSIVE Member(_, _, _)
Member(members, key, i) ==
  IF i = 0 THEN Undefined
  ELSE IF members[i][1] = key THEN members[i][2]
  ELSE Member(members, key, i - 1)

GetProp(v, key) == IF v.kind = "obj" THEN Member(v.m, key, Len(v.m)) ELSE Undefined

\* reading a property of null or undefined throws a TypeError
PropThrows(v) == v.kind \in {"null", "undefined"}

\* the truthiness `||` tests
Truthy(v) ==
  CASE v.kind \in {"undefined", "null"} -> FALSE
    [] v.kind = "bool" -> v.s = TrueText
    [] v.kind = "num" -> v.s # <<"0">>
    [] v.kind = "str" -> v.s # <<>>
    [] OTHER -> TRUE

\* String(v), as `new Error(v)` computes its message
ToText(v) ==
  CASE v.kind = "null" -> NullText
    [] v.kind = "obj" -> ObjectText
    [] OTHER -> v.s

\* the decimal digits of a natural number, as a template literal prints it
DigitChar(d) == <<"0", "1", "2", "3", "4", "5", "6", "7", "8", "9">>[d + 1]

RECURSIVE NumToText(_)
NumToText(n) == IF n < 10 THEN <<DigitChar(n)>> ELSE Append(NumToText(n \div 10), DigitChar(n % 10))

StartsWithAt(s, i, p) == i + Len(p) - 1 <= Len(s) /\ SubSeq(s, i, i + Len(p) - 1) = p

----------------------------------------------------------------------------
(* JSON.parse, on the JSON the streams of this model can hold: objects,    *)
(* strings without escapes, unsigned integers, null, true, false, with     *)
(* spaces as whitespace.  A result is [ok, val, next]: ok = FALSE is the   *)
(* SyntaxError JSON.parse throws.                                          *)

Digits == {"0", "1", "2", "3", "4", "5", "6", "7", "8", "9"}
Whitespace == {" "}

ParseFail == [ok |-> FALSE, val |-> Undefined, next |-> 0]
Parsed(v, n) == [ok |-> TRUE, val |-> v, next |-> n]

RECURSIVE SkipWs(_, _)
SkipWs(s, i) == IF i <= Len(s) /\ s[i] \in Whitespace THEN SkipWs(s, i + 1) ELSE i

\* the index of the quote closing a string whose text starts at i, 0 if none
StringEnd(s, i) ==
  LET q == {j \in i..Len(s) : s[j] = Quote} IN
  IF q = {} THEN 0 ELSE CHOOSE j \in q : \A k \in q : j <= k

ParseString(s, i) ==
  LET j == StringEnd(s, i + 1) IN
  IF j = 0 THEN ParseFail ELSE Parsed(Str(SubSeq(s, i + 1, j - 1)), j + 1)

RECURSIVE DigitsEnd(_, _)
DigitsEnd(s, i) == IF i <= Len(s) /\ s[i] \in Digits THEN DigitsEnd(s, i + 1) ELSE i

\* an integer: 0, or a non-zero digit and more digits (no leading zero)
ParseNumber(s, i) ==
  LET j == IF s[i] = "0" THEN i + 1 ELSE DigitsEnd(s, i) IN
  Parsed(Num(SubSeq(s, i, j - 1)), j)

RECURSIVE ParseValue(_, _), ParseMembers(_, _, _)
ParseValue(s, i0) ==
  LET i == SkipWs(s, i0) IN
  IF i > Len(s) THEN ParseFail
  ELSE IF s[i] = Quote THEN ParseString(s, i)
  ELSE IF s[i] \in Digits THEN ParseNumber(s, i)
  ELSE IF s[i] = "{" THEN
    LET j == SkipWs(s, i + 1) IN
    IF j <= Len(s) /\ s[j] = "}" THEN Parsed(Obj(<<>>), j + 1)
    ELSE ParseMembers(s, j, <<>>)
  ELSE IF StartsWithAt(s, i, NullText) THEN Parsed(Null, i + Len(NullText))
  ELSE IF StartsWithAt(s, i, TrueText) THEN Parsed(Bool(TrueText), i + Len(TrueText))
  ELSE IF StartsWithAt(s, i, FalseText) THEN Parsed(Bool(FalseText), i + Len(FalseText))
  ELSE ParseFail

\* the members of an object from the key at i on, up to the closing brace
ParseMembers(s, i, acc) ==
  IF i > Len(s) \/ s[i] # Quote THEN ParseFail
  ELSE
    LET k == ParseString(s, i) IN
    IF ~k.ok THEN ParseFail
    ELSE
      LET c == SkipWs(s, k.next) IN
      IF c > Len(s) \/ s[c] # ":" THEN ParseFail
      ELSE
        LET v == ParseValue(s, c + 1) IN
        IF ~v.ok THEN ParseFail
        ELSE
          LET d == SkipWs(s, v.next)
              acc2 == Append(acc, <<k.val.s, v.val>>)
          IN
          IF d > Len(s) THEN ParseFail
          ELSE IF s[d] = "}" THEN Parsed(Obj(acc2), d + 1)
          ELSE IF s[d] = "," THEN ParseMembers(s, SkipWs(s, d + 1), acc2)
          ELSE ParseFail

\* JSON.parse(s): one value, nothing but whitespace after it
JSONParse(s) ==
  LET r == ParseValue(s, 1) IN
  IF r.ok /\ SkipWs(s, r.next) > Len(s) THEN [ok |-> TRUE, val |-> r.val]
  ELSE [ok |-> FALSE, val |-> Undefined]

----------------------------------------------------------------------------
(* TextDecoder.decode(value, {stream: true}) for UTF-8: an ASCII byte is   *)
(* its character; 0xC3 0xA9 is U+00E9; a lead byte at the end of the       *)
(* input is held back for the next call; a lead byte not followed by its   *)
(* continuation byte, and a continuation byte on its own, decode to        *)
(* U+FFFD.  The result is [text, pending].                                 *)

LeadByte == "0xC3"
ContByte == "0xA9"
EAcute == "U+00E9"
Replacement == "U+FFFD"

\* what the byte at i contributes to the text: a character, or nothing (Held)
Held == ""

Emit(b, i, streaming) ==
  IF b[i] = LeadByte THEN
    IF i = Len(b) THEN (IF streaming THEN Held ELSE Replacement)
    ELSE IF b[i + 1] = ContByte THEN EAcute
    ELSE Replacement
  ELSE IF b[i] = ContByte THEN
    IF i > 1 /\ b[i - 1] = LeadByte THEN Held ELSE Replacement
  ELSE b[i]

IsChar(x) == x # Held

Utf8From(b, streaming) ==
  [ text |-> SelectSeq([i \in 1..Len(b) |-> Emit(b, i, streaming)], IsChar),
    pending |-> IF streaming /\ Len(b) > 0 /\ b[Len(b)] = LeadByte THEN <<LeadByte>> ELSE <<>> ]

\* decoder.decode(value) without { stream: true }: nothing is held back
DecodeUnbuffered(pending, value) == Utf8From(value, FALSE)

\* decoder.decode(value, { stream: true }) with the bytes the decoder held back
DecodeStream(pending, value) == Utf8From(pending \o value, TRUE)

\* the one-shot decoding of a whole body, as response.json() does
DecodeAll(bytes) == Utf8From(bytes, FALSE).text

----------------------------------------------------------------------------
(* buffer.split('\n'): the pieces between newlines, at least one           *)

\* the k-th smallest of a set of positions
Nth(nl, k) == CHOOSE p \in nl : Cardinality({j \in nl : j < p}) = k - 1

Split(s) ==
  LET nl == {i \in 1..Len(s) : s[i] = NL}
      n == Cardinality(nl)
  IN
  [ k \in 1..(n + 1) |->
      SubSeq(s, IF k = 1 THEN 1 ELSE Nth(nl, k - 1) + 1,
                IF k = n + 1 THEN Len(s) ELSE Nth(nl, k) - 1) ]

Front(q) == SubSeq(q, 1, Len(q) - 1)
Last(q) == q[Len(q)]

----------------------------------------------------------------------------
(* The controller's side of the callbacks.  page is the state of the page: *)
(* isCompiling, serverConnected, lastCompiledSource (null or a compilation *)
(* key), the status indicator, the text of the editor and of the blueprint *)
(* pane, the checkBackendHealth activations in flight (probes: those of    *)
(* the timer and of onError; session: the first one, which records the     *)
(* session), and whether appendLog throws.  An activation of handleCompile *)
(* has the locals currentKey and hasError, which its callbacks close over. *)

FailedToFetchText == <<"F", "a", "i", "l", "e", "d", " ", "t", "o", " ", "f", "e", "t", "c", "h">>
NetworkErrorText == <<"N", "e", "t", "w", "o", "r", "k", "E", "r", "r", "o", "r">>

\* String.prototype.includes
Includes(s, sub) == \E i \in 1..(Len(s) + 1) : StartsWithAt(s, i, sub)

\* the characters String.prototype.trim strips
TrimSpace == {" ", "\t", "\n", "\r"}

\* a trim that strips nothing
TrimNothing(s) == s

\* String.prototype.trim
Trim(s) ==
  LET solid == {i \in 1..Len(s) : s[i] \notin TrimSpace} IN
  IF solid = {} THEN <<>>
  ELSE SubSeq(s, CHOOSE i \in solid : \A j \in solid : i <= j,
                 CHOOSE i \in solid : \A j \in solid : j <= i)

\* getCompilationKey(source, options), the options being the same throughout:
\* JSON.stringify of an object is one text per source, here the source itself
getCompilationKey(source) == Str(source)

\* an updateConnectionStatus whose last branch leaves serverConnected as it was
updateConnectionStatusKeepsFlag(p, indicator) ==
  [p EXCEPT !.indicator = indicator,
            !.serverConnected = IF indicator = "disconnected" THEN @ ELSE indicator = "connected"]

\* updateConnectionStatus(status)
updateConnectionStatus(p, indicator) ==
  [p EXCEPT !.indicator = indicator, !.serverConnected = (indicator = "connected")]

\* setCompiling(compiling)
setCompiling(p, compiling) == [p EXCEPT !.isCompiling = compiling]

\* what assigning v to the value of a textarea leaves in it: null gives the empty
\* text, anything else its String(v)
UndefinedText == <<"u", "n", "d", "e", "f", "i", "n", "e", "d">>
TextareaValue(v) ==
  CASE v.kind = "null" -> <<>>
    [] v.kind = "undefined" -> UndefinedText
    [] OTHER -> ToText(v)

\* clearBlueprint(), setBlueprint(blueprint): the value of the textarea
clearBlueprint(p) == [p EXCEPT !.blueprintText = <<>>]
setBlueprint(p, blueprint) == [p EXCEPT !.blueprintText = TextareaValue(blueprint)]

\* checkBackendHealth(false) up to `await checkHealth()`, not awaited by its caller
checkBackendHealthStarts(p) ==
  [updateConnectionStatus(p, "connecting") EXCEPT !.probes = @ + 1]

\* appendLog(message, type), which throws when the page says so
appendLog(st) == [st EXCEPT !.raised = st.page.appendLogThrows]

\* the onError of handleCompile
PageOnError(st, error) ==
  LET marked == appendLog([st EXCEPT !.locals.hasError = TRUE]) IN
  IF marked.raised THEN marked
  ELSE IF error.kind # "str" THEN [marked EXCEPT !.raised = TRUE]
  ELSE IF Includes(error.s, FailedToFetchText) \/ Includes(error.s, NetworkErrorText)
  THEN [marked EXCEPT !.page = checkBackendHealthStarts(updateConnectionStatus(@, "disconnected"))]
  ELSE marked

\* an onComplete that leaves the button as it is
PageOnCompleteKeepsSpinner(st) ==
  [st EXCEPT !.page = IF st.page.blueprintText # <<>>
                      THEN [st.page EXCEPT !.lastCompiledSource = st.locals.currentKey]
                      ELSE st.page]

\* the onComplete of handleCompile
PageOnComplete(st) ==
  LET stopped == setCompiling(st.page, FALSE) IN
  [st EXCEPT !.page = IF stopped.blueprintText # <<>>
                      THEN [stopped EXCEPT !.lastCompiledSource = st.locals.currentKey]
                      ELSE stopped]

\* the page once init() has run: the first checkBackendHealth is under way
PageStart ==
  [ isCompiling |-> FALSE, serverConnected |-> FALSE, lastCompiledSource |-> Null,
    indicator |-> "connecting", editor |-> <<"x">>, blueprintText |-> <<>>,
    probes |-> 0, session |-> "health", connects |-> 0, appendLogThrows |-> FALSE ]

\* the locals of handleCompile: pc is "idle" (not triggered), "health" (await
\* checkBackendHealth), "compiling" (await compileWithStreaming) or "returned",
\* and why says by which way it returned
LocalsIdle == [ pc |-> "idle", currentKey |-> Null, hasError |-> FALSE, why |-> "" ]

\* the callbacks handleCompile passes, called with arg
PageCallback(st, cb, arg) ==
  CASE cb = "onLog" -> appendLog(st)
    [] cb = "onBlueprint" -> [st EXCEPT !.page = setBlueprint(@, arg)]
    [] cb = "onJson" -> st
    [] cb = "onError" -> PageOnError(st, arg)
    [] cb = "onStatus" -> appendLog(st)
    [] cb = "onQueue" -> st
    [] cb = "onComplete" -> PageOnComplete(st)

----------------------------------------------------------------------------
(* The body of compileWithStreaming, on the state of one invocation:       *)
(* st = [buffer, calls, completeCalled, callbacks, raised, page, locals].   *)
(* calls is the sequence of callback invocations made so far, each         *)
(* [cb, arg]; callbacks is the callback set the caller passed: for each    *)
(* name "absent" (left out), "returns", "throws" (a function that throws   *)
(* when called) or "page" (the callback handleCompile passes, which works  *)
(* on page and locals); raised says that an exception is propagating.      *)

CallbackNames == {"onLog", "onBlueprint", "onJson", "onError", "onStatus", "onQueue", "onComplete"}
EventCallbacks == CallbackNames \ {"onComplete"}

Invocation(cb, arg) == [cb |-> cb, arg |-> arg]

\* what the caller can pass for a callback
CallbackKinds == {"absent", "returns", "throws", "page"}

\* every callback passed, none throwing
AllReturn == [cb \in CallbackNames |-> "returns"]

\* `onX(arg)`: a callback that is left out is called all the same (a TypeError)
InvokeUnguarded(st, cb, arg) ==
  IF st.callbacks[cb] = "absent" THEN [st EXCEPT !.raised = TRUE]
  ELSE [st EXCEPT !.calls = Append(@, Invocation(cb, arg)),
                  !.raised = (st.callbacks[cb] = "throws")]

\* `onX?.(arg)`: nothing when the callback was left out, else the call, which
\* may throw
Invoke(st, cb, arg) ==
  LET called == [st EXCEPT !.calls = Append(@, Invocation(cb, arg))] IN
  CASE st.callbacks[cb] = "absent" -> st
    [] st.callbacks[cb] = "page" -> PageCallback(called, cb, arg)
    [] OTHER -> [called EXCEPT !.raised = (st.callbacks[cb] = "throws")]

\* callComplete without the latch
callCompleteUnlatched(st) == Invoke([st EXCEPT !.completeCalled = TRUE], "onComplete", Undefined)

\* callComplete with the latch set once onComplete has returned
callCompleteLatchesAfter(st) ==
  IF ~st.completeCalled
  THEN LET d == Invoke(st, "onComplete", Undefined) IN
       IF d.raised THEN d ELSE [d EXCEPT !.completeCalled = TRUE]
  ELSE st

\* callComplete: fire onComplete unless the latch is set
callComplete(st) ==
  IF ~st.completeCalled
  THEN Invoke([st EXCEPT !.completeCalled = TRUE], "onComplete", Undefined)
  ELSE st

\* a switch whose 'json' case calls onBlueprint
DispatchJsonAsBlueprint(st, event) ==
  LET type == GetProp(event, TypeKey)
      content == GetProp(event, ContentKey)
  IN
  CASE type = Str(LogType) -> Invoke(st, "onLog", content)
    [] type = Str(BlueprintType) -> Invoke(st, "onBlueprint", content)
    [] type = Str(JsonType) -> Invoke(st, "onBlueprint", content)
    [] type = Str(ErrorType) -> Invoke(st, "onError", content)
    [] type = Str(StatusType) -> Invoke(st, "onStatus", content)
    [] type = Str(QueueType) -> Invoke(st, "onQueue", content)
    [] type = Str(EndType) -> callComplete(st)
    [] OTHER -> st

\* a switch whose 'error' case completes the invocation
DispatchErrorCompletes(st, event) ==
  LET type == GetProp(event, TypeKey)
      content == GetProp(event, ContentKey)
  IN
  CASE type = Str(LogType) -> Invoke(st, "onLog", content)
    [] type = Str(BlueprintType) -> Invoke(st, "onBlueprint", content)
    [] type = Str(JsonType) -> Invoke(st, "onJson", content)
    [] type = Str(ErrorType) -> callComplete(Invoke(st, "onError", content))
    [] type = Str(StatusType) -> Invoke(st, "onStatus", content)
    [] type = Str(QueueType) -> Invoke(st, "onQueue", content)
    [] type = Str(EndType) -> callComplete(st)
    [] OTHER -> st

\* switch (event.type), strict equality with the case labels, no default
Dispatch(st, event) ==
  LET type == GetProp(event, TypeKey)
      content == GetProp(event, ContentKey)
  IN
  CASE type = Str(LogType) -> Invoke(st, "onLog", content)
    [] type = Str(BlueprintType) -> Invoke(st, "onBlueprint", content)
    [] type = Str(JsonType) -> Invoke(st, "onJson", content)
    [] type = Str(ErrorType) -> Invoke(st, "onError", content)
    [] type = Str(StatusType) -> Invoke(st, "onStatus", content)
    [] type = Str(QueueType) -> Invoke(st, "onQueue", content)
    [] type = Str(EndType) -> callComplete(st)
    [] OTHER -> st

\* a catch that reports the parse failure to onError
LineCatchReports(st) ==
  Invoke([st EXCEPT !.raised = FALSE], "onError", Str(<<"S", "y", "n", "t", "a", "x", "E", "r", "r", "o", "r">>))

\* catch (e) { console.error('Failed to parse SSE data:', e); }: the exception
\* of JSON.parse, of event.type or of a callback ends here
LineCatch(st) == [st EXCEPT !.raised = FALSE]

\* line.startsWith('data: ')
IsDataLine(line) == StartsWithAt(line, 1, DataPrefix)

\* line.slice(7)
PayloadFromSeven(line) == SubSeq(line, PrefixLen + 2, Len(line))

\* line.slice(6)
Payload(line) == SubSeq(line, PrefixLen + 1, Len(line))

\* the body of `for (const line of lines)`
ProcessLine(st, line) ==
  IF IsDataLine(line) THEN
    LET r == JSONParse(Payload(line)) IN
    IF ~r.ok \/ PropThrows(r.val) THEN LineCatch(st)
    ELSE
      LET d == Dispatch(st, r.val) IN
      IF d.raised THEN LineCatch(d) ELSE d
  ELSE st

\* a loop that takes the lines of a chunk last to first
RECURSIVE ProcessLinesBackwards(_, _, _)
ProcessLinesBackwards(st, lines, i) ==
  IF i > Len(lines) THEN st
  ELSE ProcessLine(ProcessLinesBackwards(st, lines, i + 1), lines[i])

RECURSIVE ProcessLines(_, _, _)
ProcessLines(st, lines, i) ==
  IF i > Len(lines) THEN st
  ELSE ProcessLines(ProcessLine(st, lines[i]), lines, i + 1)

\* a loop body that never takes the processed lines out of the buffer
ProcessChunkKeepsLines(st, text) ==
  LET lines == Split(st.buffer \o text) IN
  ProcessLines([st EXCEPT !.buffer = st.buffer \o text], Front(lines), 1)

\* buffer += text; lines = buffer.split('\n'); buffer = lines.pop(); the loop
ProcessChunk(st, text) ==
  LET lines == Split(st.buffer \o text) IN
  ProcessLines([st EXCEPT !.buffer = Last(lines)], Front(lines), 1)

\* throw new Error(errorData.message || `Server error: ${response.status}`)
ErrorMessage(errorData, code) ==
  IF PropThrows(errorData) THEN NullMessageError
  ELSE
    LET message == GetProp(errorData, MessageKey) IN
    IF Truthy(message) THEN ToText(message) ELSE ServerErrorText \o NumToText(code)

\* a catch block that completes without reporting the error
OuterCatchSilent(st, message) == callComplete(st)

\* a catch block that throws the error again
OuterCatchRethrows(st, message) == [st EXCEPT !.raised = TRUE]

\* catch (error) { onError?.(error.message); callComplete(); }: an exception of
\* onError leaves the block before callComplete()
OuterCatch(st, message) ==
  LET e == Invoke([st EXCEPT !.raised = FALSE], "onError", Str(message)) IN
  IF e.raised THEN e ELSE callComplete(e)

\* error.message of what a throwing callback throws
CallbackErrors == { <<"c", "a", "l", "l", "b", "a", "c", "k", " ", "f", "a", "i", "l", "e", "d">> }

\* a read loop with no callComplete() after it
AfterLoopSkipped(st) == st

\* a read loop after which what is left in the buffer is handled as a last line
AfterLoopFlushes(st) ==
  LET flushed == IF st.buffer = <<>> THEN st
                 ELSE ProcessLine([st EXCEPT !.buffer = <<>>], st.buffer)
      d == callComplete(flushed)
  IN IF d.raised THEN OuterCatch(d, CHOOSE m \in CallbackErrors : TRUE) ELSE d

\* the statement after the read loop, inside the try: an exception of onComplete
\* is caught by the catch block
AfterLoop(st) ==
  LET d == callComplete(st) IN
  IF d.raised THEN OuterCatch(d, CHOOSE m \in CallbackErrors : TRUE) ELSE d

\* response.ok
Ok(code) == 200 <= code /\ code <= 299

----------------------------------------------------------------------------
(* The backend, as the client sees it: what fetch settles with, and the    *)
(* bytes of the body.  A frame is one line of the event stream with the    *)
(* newlines the server puts after it.                                      *)

QuotedText(t) == <<Quote>> \o t \o <<Quote>>

\* {"type":"<type>","content":<content>}
Envelope(type, contentJson) ==
  <<"{">> \o QuotedText(TypeKey) \o <<":">> \o QuotedText(type) \o <<",">>
    \o QuotedText(ContentKey) \o <<":">> \o contentJson \o <<"}">>

\* {"type": "<type>", "content": <content>}, the spacing of the protocol's description
SpacedEnvelope(type, contentJson) ==
  <<"{">> \o QuotedText(TypeKey) \o <<":", " ">> \o QuotedText(type) \o <<",", " ">>
    \o QuotedText(ContentKey) \o <<":", " ">> \o contentJson \o <<"}">>

\* {"type":"<type>"}
BareEnvelope(type) == <<"{">> \o QuotedText(TypeKey) \o <<":">> \o QuotedText(type) \o <<"}">>

EventFrame(payload) == DataPrefix \o payload \o <<NL, NL>>
LineFrame(payload) == DataPrefix \o payload \o <<NL>>

LogFrame == EventFrame(Envelope(LogType, QuotedText(<<LeadByte, ContByte>>)))
BlueprintFrame == EventFrame(Envelope(BlueprintType, QuotedText(<<"0", "e">>)))
JsonFrame == LineFrame(Envelope(JsonType, QuotedText(<<"j">>)))
ErrorFrame == LineFrame(Envelope(ErrorType, QuotedText(<<"x">>)))
StatusFrame == LineFrame(SpacedEnvelope(StatusType, QuotedText(<<"s">>)))
QueueFrame == LineFrame(Envelope(QueueType, <<"3">>))
EndFrame == EventFrame(BareEnvelope(EndType))
\* a type the client does not know
UnknownFrame == LineFrame(BareEnvelope(<<"p", "i", "n", "g">>))
\* JSON that is not an object
NullFrame == LineFrame(NullText)
NumberFrame == LineFrame(<<"7">>)
\* not JSON
BrokenFrame == LineFrame(<<"{", Quote, "t">>)
\* an event line without the space after the colon
NoSpacePrefix == <<"d", "a", "t", "a", ":">>
NoSpaceFrame == NoSpacePrefix \o BareEnvelope(EndType) \o <<NL>>
\* a last line the server never terminated
OpenEndFrame == DataPrefix \o BareEnvelope(EndType)

Frames ==
  { LogFrame, BlueprintFrame, JsonFrame, ErrorFrame, StatusFrame, QueueFrame, EndFrame,
    UnknownFrame, NullFrame, NumberFrame, BrokenFrame, NoSpaceFrame, OpenEndFrame }

PairFrames == { EndFrame }

\* the bodies made of at most n frames
RECURSIVE Bodies(_, _)
Bodies(F, n) ==
  IF n = 0 THEN {<<>>}
  ELSE LET B == Bodies(F, n - 1) IN B \cup {b \o f : b \in B, f \in F}

\* the stream of the protocol's example scenario: three events framed with the
\* `data: ` prefix, and the same stream written without the space after the colon
ScenarioLog == Envelope(LogType, QuotedText(<<"p", "a", "r", "s", "i", "n", "g">>))
ScenarioBlueprint == Envelope(BlueprintType, QuotedText(<<"0", "e", "N", "G", ".", ".", ".">>))
ScenarioEnd == Envelope(EndType, QuotedText(<<>>))
ScenarioStream ==
  EventFrame(ScenarioLog) \o EventFrame(ScenarioBlueprint) \o EventFrame(ScenarioEnd)
NoSpaceScenarioStream ==
  NoSpacePrefix \o ScenarioLog \o <<NL, NL>> \o NoSpacePrefix \o ScenarioBlueprint \o <<NL, NL>>
    \o NoSpacePrefix \o ScenarioEnd \o <<NL, NL>>

Streams == Bodies(Frames, MaxEvents) \cup {ScenarioStream, NoSpaceScenarioStream}
PairStreams == Bodies(PairFrames, MaxPairEvents)

\* bodies of a response that is not ok
ErrBodies ==
  { <<"{">> \o QuotedText(MessageKey) \o <<":">> \o QuotedText(<<"b", "a", "d">>) \o <<"}">>,
    <<"{">> \o QuotedText(MessageKey) \o <<":">> \o QuotedText(<<>>) \o <<"}">>,
    <<"{">> \o QuotedText(MessageKey) \o <<":">> \o <<"5", "}">>,
    <<"{", "}">>,
    NullText,
    <<"B", "a", "d">>,
    <<>> }

Statuses == {200, 404, 500}

\* error.message of a fetch that rejects, and of a read that rejects
FetchErrors == { <<"F", "a", "i", "l", "e", "d", " ", "t", "o", " ", "f", "e", "t", "c", "h">> }
ReadErrors == { <<"n", "e", "t", "w", "o", "r", "k", " ", "e", "r", "r", "o", "r">> }

----------------------------------------------------------------------------
(* compileSync, checkHealth and connect.  The promise an async function    *)
(* returns is pending, fulfilled with a value or rejected with an error    *)
(* (its message).                                                          *)

Pending == [state |-> "pending", value |-> Undefined, message |-> <<>>]
Fulfilled(v) == [state |-> "fulfilled", value |-> v, message |-> <<>>]
Rejected(m) == [state |-> "rejected", value |-> Undefined, message |-> m]

JsBool(b) == Bool(IF b THEN TrueText ELSE FalseText)

\* a source text a caller compiles
SomeSource == <<"x">>

\* the JSON body of a 2xx response of /compile/sync: a result, null, not JSON, nothing
SyncBodies ==
  { Envelope(BlueprintType, QuotedText(<<"0", "e">>)),
    NullText,
    <<"{", Quote, "b">>,
    <<>> }

\* error.message of the SyntaxError of response.json() on a body that is not JSON
JsonErrors == { <<"U", "n", "e", "x", "p", "e", "c", "t", "e", "d", " ", "e", "n", "d">> }

\* if (!response.ok) { ...; throw new Error(errorData.message || `Server error: ...`) }
SyncNotOk(errorData, code) == Rejected(ErrorMessage(errorData, code))

\* return await response.json(): the parsed body, or the rejection of json()
SyncResult(bytes, failure) ==
  LET r == JSONParse(DecodeAll(bytes)) IN
  IF failure # <<>> THEN Rejected(failure)
  ELSE IF r.ok THEN Fulfilled(r.val)
  ELSE Rejected(CHOOSE m \in JsonErrors : TRUE)

\* `await fetch(...)` rejects outside any try: the rejection is compileSync's
SyncFetchRejected(message) == Rejected(message)

SyncIdle ==
  [ pc |-> "idle", status |-> 0, body |-> <<>>, requests |-> <<>>, outcome |-> Pending ]

\* checkHealth and connect
ProbeNames == {"checkHealth", "connect"}
ProbeMethod(p) == IF p = "checkHealth" THEN "GET" ELSE "POST"
ProbeEndpoint(p) == IF p = "checkHealth" THEN HealthEndpoint ELSE ConnectEndpoint

\* a probe without its try/catch
ProbeUncaught(rejected, code) ==
  IF rejected THEN Rejected(CHOOSE m \in FetchErrors : TRUE) ELSE Fulfilled(JsBool(Ok(code)))

\* try { const response = await fetch(...); return response.ok; } catch { return false; }
ProbeSettles(rejected, code) ==
  IF rejected THEN Fulfilled(JsBool(FALSE)) ELSE Fulfilled(JsBool(Ok(code)))

\* the statuses a probe can be answered with
ProbeStatuses == {200, 204, 404, 500}

ProbeIdle == [ pc |-> "idle", status |-> 0, requests |-> <<>>, outcome |-> Pending ]

OutsideInit ==
  /\ sync = SyncIdle
  /\ probe = [p \in ProbeNames |-> ProbeIdle]

----------------------------------------------------------------------------
(* The invocations.  pc is where an invocation is suspended: "idle" (not   *)
(* called yet), "fetch" (await fetch), "json" (await response.json() of a  *)
(* response that is not ok), "read" (await reader.read()), "done"          *)
(* (returned: the promise is fulfilled), "rejected" (an exception left the *)
(* function: the promise is rejected).  stream is the state of             *)
(* response.body as the reader finds it: "none" until getReader(), then    *)
(* "open", "closed" or "errored".  requests is the sequence of the HTTP     *)
(* requests the invocation has issued.                                     *)

CallIds == {1, 2}

\* one latch at module level, shared by every invocation
LatchShared(c) == 1

\* the latch an invocation's callComplete closes over: its own
LatchOf(c) == c

St(c) ==
  [ buffer |-> buffer[c], calls |-> calls[c], completeCalled |-> completeCalled[LatchOf(c)],
    callbacks |-> callbacks[c], raised |-> FALSE, page |-> page, locals |-> locals[c] ]

\* the invocation's state after a step of its body
Store(c, st) ==
  /\ buffer' = [buffer EXCEPT ![c] = st.buffer]
  /\ calls' = [calls EXCEPT ![c] = st.calls]
  /\ completeCalled' = [completeCalled EXCEPT ![LatchOf(c)] = st.completeCalled]
  /\ page' = st.page
  /\ locals' = [locals EXCEPT ![c] = st.locals]

\* the function ends: it returns, or the exception that is propagating leaves it
Settle(c, st) ==
  /\ Store(c, st)
  /\ pc' = [pc EXCEPT ![c] = IF st.raised THEN "rejected" ELSE "done"]

\* fetch(url, { method, body: JSON.stringify({ source, ... }) }), as issued
Request(method, endpoint, source) == [method |-> method, endpoint |-> endpoint, source |-> source]

\* a function that sends its request a second time
IssueTwice(sent, request) == Append(Append(sent, request), request)

\* the one fetch(...) of a function: the request goes out
Issue(sent, request) == Append(sent, request)

Init ==
  /\ pc = [c \in CallIds |-> "idle"]
  /\ status = [c \in CallIds |-> 0]
  /\ body = [c \in CallIds |-> <<>>]
  /\ pos = [c \in CallIds |-> 0]
  /\ stream = [c \in CallIds |-> "none"]
  /\ decoder = [c \in CallIds |-> <<>>]
  /\ buffer = [c \in CallIds |-> <<>>]
  /\ completeCalled = [c \in CallIds |-> FALSE]
  /\ calls = [c \in CallIds |-> <<>>]
  /\ callbacks = [c \in CallIds |-> AllReturn]
  /\ requests = [c \in CallIds |-> <<>>]
  /\ OutsideInit
  /\ page = PageStart
  /\ locals = [c \in CallIds |-> LocalsIdle]

\* the state of the invocations: where each is suspended (pc), the status and the
\* body of its response, the bytes of the body its reader has delivered (pos), the
\* state of the body stream, the bytes its TextDecoder holds back (decoder), its
\* line buffer, its completion latch and the callbacks it has invoked (calls)
TypeOK ==
  /\ pc \in [CallIds -> {"idle", "fetch", "json", "read", "done", "rejected"}]
  /\ callbacks \in [CallIds -> [CallbackNames -> CallbackKinds]]
  /\ status \in [CallIds -> {0} \cup Statuses]
  /\ stream \in [CallIds -> {"none", "open", "closed", "errored"}]
  /\ completeCalled \in [CallIds -> BOOLEAN]
  /\ \A c \in CallIds :
       /\ pos[c] \in 0..Len(body[c])
       /\ decoder[c] \in {<<>>, <<LeadByte>>}
       /\ NL \notin {buffer[c][i] : i \in 1..Len(buffer[c])}
       /\ \A i \in 1..Len(calls[c]) : calls[c][i].cb \in CallbackNames
       /\ locals[c].pc \in {"idle", "health", "compiling", "returned"}
       /\ locals[c].hasError \in BOOLEAN
  /\ page.isCompiling \in BOOLEAN /\ page.serverConnected \in BOOLEAN
  /\ page.indicator \in {"connected", "connecting", "disconnected"}
  /\ page.session \in {"health", "connect", "done"}
  /\ page.probes \in Nat /\ page.connects \in Nat

\* compileWithStreaming(source, options, callbacks) up to `await fetch(...)`
Call(c, source, cbs) ==
  /\ pc[c] = "idle"
  /\ pc' = [pc EXCEPT ![c] = "fetch"]
  /\ callbacks' = [callbacks EXCEPT ![c] = cbs]
  /\ completeCalled' = [completeCalled EXCEPT ![LatchOf(c)] = FALSE]
  /\ requests' = [requests EXCEPT ![c] = Issue(@, Request("POST", CompileEndpoint, source))]
  /\ UNCHANGED <<status, body, pos, stream, decoder, buffer, calls>>
  /\ UNCHANGED outside

\* fetch rejects: the catch block
FetchRejects(c) ==
  /\ pc[c] = "fetch"
  /\ \E message \in FetchErrors : Settle(c, OuterCatch(St(c), message))
  /\ UNCHANGED <<status, body, pos, stream, decoder, callbacks, requests>>
  /\ UNCHANGED outside

\* fetch resolves with a response: not ok, on to response.json(); ok, getReader()
\* and on to the first read
FetchResolves(c, universe) ==
  /\ pc[c] = "fetch"
  /\ \E code \in Statuses :
       \E bytes \in (IF Ok(code) THEN universe ELSE ErrBodies) :
         /\ status' = [status EXCEPT ![c] = code]
         /\ body' = [body EXCEPT ![c] = bytes]
         /\ pc' = [pc EXCEPT ![c] = IF Ok(code) THEN "read" ELSE "json"]
         /\ stream' = [stream EXCEPT ![c] = IF Ok(code) THEN "open" ELSE "none"]
  /\ UNCHANGED <<pos, decoder, buffer, completeCalled, calls, callbacks, requests>>
  /\ UNCHANGED <<outside, controller>>

\* response.json().catch(() => ({})) settles (read false: the body could not be
\* read), the Error is thrown and caught
ErrorBodyRead(c) ==
  /\ pc[c] = "json"
  /\ \E read \in BOOLEAN :
       LET r == JSONParse(DecodeAll(body[c]))
           errorData == IF read /\ r.ok THEN r.val ELSE Obj(<<>>)
       IN Settle(c, OuterCatch(St(c), ErrorMessage(errorData, status[c])))
  /\ UNCHANGED <<status, body, pos, stream, decoder, callbacks, requests>>
  /\ UNCHANGED outside

\* reader.read() resolves with the next n bytes of the body
ReadChunk(c) ==
  /\ pc[c] = "read"
  /\ \E n \in 1..(Len(body[c]) - pos[c]) :
       LET d == DecodeStream(decoder[c], SubSeq(body[c], pos[c] + 1, pos[c] + n)) IN
       /\ Store(c, ProcessChunk(St(c), d.text))
       /\ decoder' = [decoder EXCEPT ![c] = d.pending]
       /\ pos' = [pos EXCEPT ![c] = pos[c] + n]
  /\ UNCHANGED <<pc, status, body, stream, callbacks, requests>>
  /\ UNCHANGED outside

\* reader.read() resolves with done: the loop ends, the function returns
ReadDone(c) ==
  /\ pc[c] = "read"
  /\ pos[c] = Len(body[c])
  /\ Settle(c, AfterLoop(St(c)))
  /\ stream' = [stream EXCEPT ![c] = "closed"]
  /\ UNCHANGED <<status, body, pos, decoder, callbacks, requests>>
  /\ UNCHANGED outside

\* reader.read() rejects: the catch block
ReadRejects(c) ==
  /\ pc[c] = "read"
  /\ \E message \in ReadErrors : Settle(c, OuterCatch(St(c), message))
  /\ stream' = [stream EXCEPT ![c] = "errored"]
  /\ UNCHANGED <<status, body, pos, decoder, callbacks, requests>>
  /\ UNCHANGED outside

\* one invocation against the whole range of streams
Next ==
  \/ Call(1, SomeSource, AllReturn) /\ UNCHANGED controller
  \/ FetchRejects(1)
  \/ FetchResolves(1, Streams)
  \/ ErrorBodyRead(1)
  \/ ReadChunk(1)
  \/ ReadDone(1)
  \/ ReadRejects(1)

Spec == Init /\ [][Next]_vars

\* two invocations side by side
NextPair ==
  \E c \in CallIds :
    \/ Call(c, SomeSource, AllReturn) /\ UNCHANGED controller
    \/ FetchRejects(c)
    \/ FetchResolves(c, PairStreams)
    \/ ErrorBodyRead(c)
    \/ ReadChunk(c)
    \/ ReadDone(c)
    \/ ReadRejects(c)

SpecPair == Init /\ [][NextPair]_vars

----------------------------------------------------------------------------
(* compileSync(source, options): sync.pc is "idle", "fetch" (await fetch), *)
(* "json" (await response.json() of a response that is not ok), "result"   *)
(* (await response.json() of the result) or "settled".                     *)

\* compileSync(...) up to `await fetch(...)`
SyncCall ==
  /\ sync.pc = "idle"
  /\ sync' = [sync EXCEPT !.pc = "fetch",
                          !.requests = Issue(@, Request("POST", CompileSyncEndpoint, SomeSource))]
  /\ UNCHANGED <<invocations, probe, controller>>

\* fetch rejects
SyncFetchRejects ==
  /\ sync.pc = "fetch"
  /\ \E message \in FetchErrors :
       sync' = [sync EXCEPT !.pc = "settled", !.outcome = SyncFetchRejected(message)]
  /\ UNCHANGED <<invocations, probe, controller>>

\* fetch resolves with a response
SyncFetchResolves ==
  /\ sync.pc = "fetch"
  /\ \E code \in Statuses :
       \E bytes \in (IF Ok(code) THEN SyncBodies ELSE ErrBodies) :
         sync' = [sync EXCEPT !.pc = IF Ok(code) THEN "result" ELSE "json",
                              !.status = code, !.body = bytes]
  /\ UNCHANGED <<invocations, probe, controller>>

\* response.json().catch(() => ({})) settles and the Error is thrown
SyncErrorBodyRead ==
  /\ sync.pc = "json"
  /\ \E failed \in BOOLEAN :
       LET r == JSONParse(DecodeAll(sync.body))
           errorData == IF r.ok /\ ~failed THEN r.val ELSE Obj(<<>>)
       IN sync' = [sync EXCEPT !.pc = "settled", !.outcome = SyncNotOk(errorData, sync.status)]
  /\ UNCHANGED <<invocations, probe, controller>>

\* response.json() of the result settles
SyncResultRead ==
  /\ sync.pc = "result"
  /\ \E failure \in {<<>>} \cup ReadErrors :
       sync' = [sync EXCEPT !.pc = "settled", !.outcome = SyncResult(sync.body, failure)]
  /\ UNCHANGED <<invocations, probe, controller>>

\* checkHealth() or connect() up to `await fetch(...)`
ProbeCall(p) ==
  /\ probe[p].pc = "idle"
  /\ probe' = [probe EXCEPT ![p].pc = "fetch",
                            ![p].requests = Issue(@, Request(ProbeMethod(p), ProbeEndpoint(p), <<>>))]
  /\ UNCHANGED <<invocations, sync, controller>>

\* the fetch of a probe settles: it rejects, or resolves with a response
ProbeFetchSettles(p) ==
  /\ probe[p].pc = "fetch"
  /\ \E rejected \in BOOLEAN :
       \E code \in (IF rejected THEN {0} ELSE ProbeStatuses) :
         probe' = [probe EXCEPT ![p].pc = "settled", ![p].status = code,
                                ![p].outcome = ProbeSettles(rejected, code)]
  /\ UNCHANGED <<invocations, sync, controller>>

\* compileSync, checkHealth and connect, each called once, side by side
NextSync ==
  \/ SyncCall
  \/ SyncFetchRejects
  \/ SyncFetchResolves
  \/ SyncErrorBodyRead
  \/ SyncResultRead
  \/ \E p \in ProbeNames : ProbeCall(p) \/ ProbeFetchSettles(p)

SpecSync == Init /\ [][NextSync]_vars

\* the callback sets of the callers of SpecPaths: all returning, and an onError
\* that throws
ErrorThrows == [AllReturn EXCEPT !["onError"] = "throws"]
PathCallbacks == {AllReturn, ErrorThrows}

\* the two ways to compile side by side: one invocation of compileWithStreaming
\* and one of compileSync
NextPaths ==
  \/ \E cbs \in PathCallbacks : Call(1, SomeSource, cbs) /\ UNCHANGED controller
  \/ FetchRejects(1)
  \/ FetchResolves(1, PairStreams)
  \/ ErrorBodyRead(1)
  \/ ReadChunk(1)
  \/ ReadDone(1)
  \/ ReadRejects(1)
  \/ SyncCall
  \/ SyncFetchRejects
  \/ SyncFetchResolves
  \/ SyncErrorBodyRead
  \/ SyncResultRead

SpecPaths == Init /\ [][NextPaths]_vars

\* callers that leave callbacks out: up to MaxMissing of them, or all of them,
\* the ones passed returning
NoCallbacks == [cb \in CallbackNames |-> "absent"]
Missing(cbs) == {cb \in CallbackNames : cbs[cb] = "absent"}
OptionalCallbacks ==
  {cbs \in [CallbackNames -> {"absent", "returns"}] : Cardinality(Missing(cbs)) <= MaxMissing}
    \cup {NoCallbacks}

\* the streams they are answered with: between them an event for every callback,
\* one ending with an `end` envelope and one that just closes
OptionalStreams ==
  { LogFrame \o BlueprintFrame \o JsonFrame \o EndFrame,
    ErrorFrame \o StatusFrame \o QueueFrame }

\* one invocation with any part of the callbacks left out
NextOptional ==
  \/ \E cbs \in OptionalCallbacks : Call(1, SomeSource, cbs) /\ UNCHANGED controller
  \/ FetchRejects(1)
  \/ FetchResolves(1, OptionalStreams)
  \/ ErrorBodyRead(1)
  \/ ReadChunk(1)
  \/ ReadDone(1)
  \/ ReadRejects(1)

SpecOptional == Init /\ [][NextOptional]_vars

\* streams whose last line the server never terminated: up to MaxTailEvents
\* frames, then a log or an `end` envelope with no newline after it
OpenLogFrame == DataPrefix \o Envelope(LogType, QuotedText(<<"l">>))
TailFrames == { OpenLogFrame, OpenEndFrame }
TailStreams == { b \o t : b \in Bodies({JsonFrame, EndFrame}, MaxTailEvents), t \in TailFrames }

\* one invocation answered with such a stream
NextTail ==
  \/ Call(1, SomeSource, AllReturn) /\ UNCHANGED controller
  \/ FetchRejects(1)
  \/ FetchResolves(1, TailStreams)
  \/ ErrorBodyRead(1)
  \/ ReadChunk(1)
  \/ ReadDone(1)
  \/ ReadRejects(1)

SpecTail == Init /\ [][NextTail]_vars

\* callers one of whose callbacks throws whenever it is invoked
OneThrows == { [AllReturn EXCEPT ![cb] = "throws"] : cb \in CallbackNames }

\* the streams they are answered with: an event for every callback, and an `end`
\* envelope with a line after it
ThrowStreams == OptionalStreams \cup { EndFrame \o QueueFrame }

\* one invocation with a callback that throws
NextThrows ==
  \/ \E cbs \in OneThrows : Call(1, SomeSource, cbs) /\ UNCHANGED controller
  \/ FetchRejects(1)
  \/ FetchResolves(1, ThrowStreams)
  \/ ErrorBodyRead(1)
  \/ ReadChunk(1)
  \/ ReadDone(1)
  \/ ReadRejects(1)

SpecThrows == Init /\ [][NextThrows]_vars

----------------------------------------------------------------------------
(* The controller: handleCompile (a click on the compile button or         *)
(* Ctrl+Enter), checkBackendHealth (at start, on the timer, from           *)
(* handleCompile and from its onError) and the editor.  The activation h   *)
(* of handleCompile calls the invocation h of compileWithStreaming.        *)

\* the callback set handleCompile passes
PageCallbacks == [cb \in CallbackNames |-> "page"]

\* what the editor can hold: blanks only, a source, and the source with blanks
\* around it
EditorTexts == { <<" ", "\n">>, <<"x">>, <<" ", "x", "\n">> }

\* the streams the backend answers a compilation with: a blueprint and the end,
\* and nothing
PageStreams == { LineFrame(Envelope(BlueprintType, QuotedText(<<"0", "e">>)))
                   \o LineFrame(BareEnvelope(EndType)),
                 <<>> }

\* the answers that are not 2xx: a 500 with a message
PageErrorBody == <<"{">> \o QuotedText(MessageKey) \o <<":">> \o QuotedText(<<"b", "a", "d">>) \o <<"}">>
Answered(c) == Ok(status'[c]) \/ (status'[c] = 500 /\ body'[c] = PageErrorBody)

\* isHealthy: what `await window.FactoCompiler.checkHealth()` gives
IsHealthy(rejected, code) == ProbeSettles(rejected, code) = Fulfilled(JsBool(TRUE))

\* handleCompile returns without compiling
Returns(h, p, why) ==
  /\ page' = p
  /\ locals' = [locals EXCEPT ![h].pc = "returned", ![h].why = why]
  /\ UNCHANGED <<invocations, outside>>

\* handleCompile from `const source = editor.getValue().trim()` to the call of
\* compileWithStreaming, which runs up to its `await fetch(...)`
Proceed(h, p) ==
  LET source == Trim(p.editor)
      currentKey == getCompilationKey(source)
  IN
  IF source = <<>> THEN Returns(h, p, "empty")
  ELSE IF p.lastCompiledSource = currentKey /\ p.blueprintText # <<>> THEN Returns(h, p, "cached")
  ELSE
    /\ page' = clearBlueprint(setCompiling(p, TRUE))
    /\ locals' = [locals EXCEPT ![h] = [ pc |-> "compiling", currentKey |-> currentKey,
                                         hasError |-> FALSE, why |-> "" ]]
    /\ Call(h, source, PageCallbacks)

\* handleCompile() up to its first await, or to its return
handleCompile(h) ==
  /\ locals[h].pc = "idle"
  /\ IF page.isCompiling THEN Returns(h, page, "busy")
     ELSE IF ~page.serverConnected THEN
       /\ page' = updateConnectionStatus(page, "connecting")
       /\ locals' = [locals EXCEPT ![h].pc = "health"]
       /\ UNCHANGED <<invocations, outside>>
     ELSE Proceed(h, page)

\* `await checkBackendHealth(true)` of handleCompile settles
handleCompileChecked(h) ==
  /\ locals[h].pc = "health"
  /\ \E rejected \in BOOLEAN :
       \E code \in (IF rejected THEN {0} ELSE ProbeStatuses) :
         IF IsHealthy(rejected, code)
         THEN Proceed(h, updateConnectionStatus(page, "connected"))
         ELSE Returns(h, updateConnectionStatus(page, "disconnected"), "unhealthy")

\* `await compileWithStreaming(...)` settles: handleCompile returns, through its
\* catch block when the promise was rejected
handleCompileResumes(h) ==
  /\ locals[h].pc = "compiling"
  /\ pc[h] \in {"done", "rejected"}
  /\ IF pc[h] = "rejected"
     THEN Returns(h, setCompiling(page, FALSE), "caught")
     ELSE Returns(h, page, "done")

\* the timer of startHealthChecks fires: checkBackendHealth(false, false)
healthCheckTick ==
  /\ page.probes < MaxProbes
  /\ page' = checkBackendHealthStarts(page)
  /\ UNCHANGED <<invocations, outside, locals>>

\* `await checkHealth()` of a checkBackendHealth(false, false) settles
checkBackendHealthSettles ==
  /\ page.probes > 0
  /\ \E rejected \in BOOLEAN :
       \E code \in (IF rejected THEN {0} ELSE ProbeStatuses) :
         page' = [updateConnectionStatus(page, IF IsHealthy(rejected, code) THEN "connected"
                                               ELSE "disconnected")
                    EXCEPT !.probes = @ - 1]
  /\ UNCHANGED <<invocations, outside, locals>>

\* `await checkHealth()` of the first checkBackendHealth(false, true) settles:
\* healthy, on to `await connect()`
sessionChecked ==
  /\ page.session = "health"
  /\ \E rejected \in BOOLEAN :
       \E code \in (IF rejected THEN {0} ELSE ProbeStatuses) :
         page' = IF IsHealthy(rejected, code)
                 THEN [updateConnectionStatus(page, "connected")
                         EXCEPT !.session = "connect", !.connects = @ + 1]
                 ELSE [updateConnectionStatus(page, "disconnected") EXCEPT !.session = "done"]
  /\ UNCHANGED <<invocations, outside, locals>>

\* `await connect()` settles, whatever the answer
sessionRecorded ==
  /\ page.session = "connect"
  /\ page' = [page EXCEPT !.session = "done"]
  /\ UNCHANGED <<invocations, outside, locals>>

\* the user changes the text of the editor to one of texts: the change listener
editorChangeTo(texts) ==
  /\ \E text \in texts \ {page.editor} :
       page' = [page EXCEPT !.editor = text, !.lastCompiledSource = Null]
  /\ UNCHANGED <<invocations, outside, locals>>

editorChange == editorChangeTo(EditorTexts)

\* a chunk ends where the backend flushed: after a line, or at the end of the body
Flushed(c) == pos'[c] = Len(body[c]) \/ body[c][pos'[c]] = NL

\* the page with its handlers, its health checks and its editor
NextController ==
  \/ \E h \in CallIds :
       \/ handleCompile(h)
       \/ handleCompileChecked(h)
       \/ handleCompileResumes(h)
       \/ FetchRejects(h)
       \/ FetchResolves(h, PageStreams) /\ Answered(h)
       \/ ErrorBodyRead(h)
       \/ ReadChunk(h) /\ Flushed(h)
       \/ ReadDone(h)
       \/ ReadRejects(h)
  \/ healthCheckTick
  \/ checkBackendHealthSettles
  \/ sessionChecked
  \/ sessionRecorded
  \/ editorChange

SpecController == Init /\ [][NextController]_vars

\* the page as it starts, on which appendLog may throw
InitCompile ==
  /\ pc = [c \in CallIds |-> "idle"]
  /\ status = [c \in CallIds |-> 0]
  /\ body = [c \in CallIds |-> <<>>]
  /\ pos = [c \in CallIds |-> 0]
  /\ stream = [c \in CallIds |-> "none"]
  /\ decoder = [c \in CallIds |-> <<>>]
  /\ buffer = [c \in CallIds |-> <<>>]
  /\ completeCalled = [c \in CallIds |-> FALSE]
  /\ calls = [c \in CallIds |-> <<>>]
  /\ callbacks = [c \in CallIds |-> AllReturn]
  /\ requests = [c \in CallIds |-> <<>>]
  /\ OutsideInit
  /\ \E throws \in BOOLEAN : page = [PageStart EXCEPT !.appendLogThrows = throws]
  /\ locals = [c \in CallIds |-> LocalsIdle]

\* the compilations of the page and the health checks of its timer
NextCompile ==
  \/ \E h \in CallIds :
       \/ handleCompile(h)
       \/ handleCompileChecked(h)
       \/ handleCompileResumes(h)
       \/ FetchRejects(h)
       \/ FetchResolves(h, PageStreams) /\ Answered(h)
       \/ ErrorBodyRead(h)
       \/ ReadChunk(h) /\ Flushed(h)
       \/ ReadDone(h)
       \/ ReadRejects(h)
  \/ healthCheckTick
  \/ checkBackendHealthSettles

\* a step of a compilation that is under way: its fetch or a read of its body
\* settles, or handleCompile resumes after the promise it awaits has settled
Settles ==
  \E h \in CallIds :
    \/ FetchRejects(h)
    \/ FetchResolves(h, PageStreams) /\ Answered(h)
    \/ ErrorBodyRead(h)
    \/ ReadRejects(h)
    \/ ReadDone(h)
    \/ ReadChunk(h) /\ Flushed(h)
    \/ handleCompileChecked(h)
    \/ handleCompileResumes(h)

\* no compilation under way waits for ever: every fetch and every read settles
\* and the event loop runs the continuation of a settled promise
FairCompile == InitCompile /\ [][NextCompile]_vars /\ WF_vars(Settles)

\* the page with two sources in turn in its editor, and a backend whose blueprint
\* for a source is the text of that source: what a stream carries tells which
\* source it was compiled from
CacheTexts == { <<"x">>, <<"y">> }
BlueprintOf(source) == source
BlueprintStream(source) ==
  LineFrame(Envelope(BlueprintType, QuotedText(BlueprintOf(source)))) \o LineFrame(BareEnvelope(EndType))
CacheStreams == { BlueprintStream(Trim(text)) : text \in CacheTexts } \cup { <<>> }

\* the backend answers a request with the blueprint of the source it was sent, or
\* with a stream that carries none
Compiled(c) ==
  /\ Answered(c)
  /\ Ok(status'[c]) => body'[c] \in { BlueprintStream(requests[c][1].source), <<>> }

NextCache ==
  \/ \E h \in CallIds :
       \/ handleCompile(h)
       \/ handleCompileChecked(h)
       \/ handleCompileResumes(h)
       \/ FetchRejects(h)
       \/ FetchResolves(h, CacheStreams) /\ Compiled(h)
       \/ ErrorBodyRead(h)
       \/ ReadChunk(h) /\ Flushed(h)
       \/ ReadDone(h)
       \/ ReadRejects(h)
  \/ editorChangeTo(CacheTexts)

SpecCache == Init /\ [][NextCache]_vars

----------------------------------------------------------------------------
(* Properties                                                              *)

IsComplete(e) == e.cb = "onComplete"
IsEvent(e) == e.cb \in EventCallbacks
IsErrorCall(e) == e.cb = "onError"

\* how many times onComplete was invoked
Completions(q) == Len(SelectSeq(q, IsComplete))

\* a fresh invocation
Blank ==
  [ buffer |-> <<>>, calls |-> <<>>, completeCalled |-> FALSE,
    callbacks |-> AllReturn, raised |-> FALSE, page |-> PageStart, locals |-> LocalsIdle ]

\* the text received so far, and the lines of it that a newline has ended
Received(c) == DecodeStream(<<>>, SubSeq(body[c], 1, pos[c])).text
CompleteLines(text) == Front(Split(text))

\* the envelope a line carries: the parsed object of a `data: ` line, undefined else
EnvelopeOf(line) ==
  IF IsDataLine(line) THEN
    LET r == JSONParse(Payload(line)) IN
    IF r.ok /\ r.val.kind = "obj" THEN r.val ELSE Undefined
  ELSE Undefined

IsEndLine(line) == GetProp(EnvelopeOf(line), TypeKey) = Str(EndType)
HasEnd(text) == \E i \in 1..Len(CompleteLines(text)) : IsEndLine(CompleteLines(text)[i])

\* C1: whatever completion triggers occur, an invocation's onComplete is invoked at
\* most once, and with two invocations in flight each has a latch of its own: its
\* latch is set exactly when its own onComplete has fired, and each invocation that
\* has returned has fired its onComplete once, whatever the other one did.
C1_CompleteAtMostOncePerCall ==
  \A c \in CallIds :
    /\ Completions(calls[c]) <= 1
    /\ completeCalled[c] <=> Completions(calls[c]) = 1
    /\ pc[c] = "done" => Completions(calls[c]) = 1

\* invocation 1 has seen two `end` envelopes and the closure of its stream, while
\* invocation 2, still reading, has fired its own onComplete
C1_Witness ==
  /\ pc[1] = "done" /\ stream[1] = "closed"
  /\ body[1] = EndFrame \o EndFrame
  /\ Completions(calls[1]) = 1
  /\ pc[2] = "read" /\ Completions(calls[2]) = 1

\* C2: a 2xx response whose stream closes without an `end` envelope: onComplete has
\* not fired while the stream is read, and has fired exactly once, as the last
\* callback, when the end of the stream has been observed; an empty body invokes
\* onComplete and nothing else.
C2_CompleteOnClosure ==
  \A c \in CallIds :
    (stream[c] \in {"open", "closed"} /\ ~HasEnd(DecodeAll(body[c]))) =>
      /\ pc[c] = "read" => Completions(calls[c]) = 0
      /\ pc[c] = "done" =>
           /\ Completions(calls[c]) = 1
           /\ Last(calls[c]) = Invocation("onComplete", Undefined)
           /\ body[c] = <<>> => calls[c] = <<Invocation("onComplete", Undefined)>>

\* a stream with events and no `end` has closed
C2_Witness ==
  /\ pc[1] = "done" /\ stream[1] = "closed"
  /\ ~HasEnd(DecodeAll(body[1]))
  /\ Len(calls[1]) >= 2
  /\ Completions(calls[1]) = 1

\* a well-formed stream: every line is empty or a `data: ` line with an envelope
\* of a known type, every line is terminated, and the one `end` envelope is the
\* last event
KnownTypes == {LogType, BlueprintType, JsonType, ErrorType, StatusType, QueueType, EndType}

IsKnownEvent(line) ==
  LET type == GetProp(EnvelopeOf(line), TypeKey) IN
  type.kind = "str" /\ type.s \in KnownTypes

WellFormed(text) ==
  LET pieces == Split(text)
      lines == Front(pieces)
      events == {i \in 1..Len(lines) : lines[i] # <<>>}
      ends == {i \in events : IsEndLine(lines[i])}
  IN
  /\ Last(pieces) = <<>>
  /\ \A i \in events : IsKnownEvent(lines[i])
  /\ Cardinality(ends) = 1
  /\ \A i \in ends : \A j \in events : j <= i

EventLineCount(text) == Cardinality({i \in 1..Len(CompleteLines(text)) : CompleteLines(text)[i] # <<>>})

\* C3: for a well-formed stream ending in an `end` envelope, onComplete is invoked
\* at most once while the stream is read, never before another callback, and when
\* the stream has closed it has been invoked exactly once, after the callbacks of
\* all the other events.
C3_CompleteLastOnWellFormed ==
  \A c \in CallIds :
    (stream[c] \in {"open", "closed"} /\ WellFormed(DecodeAll(body[c]))) =>
      /\ Completions(calls[c]) <= 1
      /\ Completions(calls[c]) = 1 => Last(calls[c]).cb = "onComplete"
      /\ pc[c] = "done" =>
           /\ Completions(calls[c]) = 1
           /\ Len(calls[c]) = EventLineCount(DecodeAll(body[c]))

\* a well-formed stream of an event and an `end` has closed
C3_Witness ==
  /\ pc[1] = "done" /\ stream[1] = "closed"
  /\ WellFormed(DecodeAll(body[1]))
  /\ Len(calls[1]) >= 2

\* the generic message of a response that is not ok
GenericMessage(code) == ServerErrorText \o NumToText(code)

\* the `message` of a JSON body, undefined when the body is not JSON or has none
BodyMessage(bytes) ==
  LET r == JSONParse(DecodeAll(bytes)) IN
  IF r.ok THEN GetProp(r.val, MessageKey) ELSE Undefined

\* C4: an initial response that is not 2xx, whatever its body: onError is invoked
\* once with a non-empty message, the `message` of the body if it has one and else
\* the generic message with the status code, then onComplete once, nothing else,
\* and the body stream is never read.
C4_NonOkResponse ==
  \A c \in CallIds :
    (pc[c] = "done" /\ status[c] # 0 /\ ~Ok(status[c])) =>
      /\ Len(calls[c]) = 2
      /\ calls[c][1].cb = "onError"
      /\ calls[c][1].arg.kind = "str" /\ calls[c][1].arg.s # <<>>
      /\ \/ calls[c][1].arg.s = GenericMessage(status[c])
         \/ /\ Truthy(BodyMessage(body[c]))
            /\ calls[c][1].arg.s = ToText(BodyMessage(body[c]))
      /\ calls[c][2] = Invocation("onComplete", Undefined)
      /\ stream[c] = "none" /\ pos[c] = 0

\* an `end` envelope was dispatched before the failure
EndSeen(c) == HasEnd(Received(c))

\* the invocation ended in its catch block on a transport failure
FetchFailed(c) == pc[c] = "done" /\ status[c] = 0
ReadFailed(c) == pc[c] = "done" /\ stream[c] = "errored"

IsFailureReport(e, messages) == e.cb = "onError" /\ e.arg.kind = "str" /\ e.arg.s \in messages

EventCalls(q) == SelectSeq(q, IsEvent)
Delivered(c) == IF stream[c] = "errored" THEN Front(EventCalls(calls[c])) ELSE EventCalls(calls[c])

\* the event callback of one line, taken on its own
LineEvents(line) == EventCalls(ProcessLine(Blank, line).calls)

\* the event callbacks of the lines from the i-th on, in the order of the lines
RECURSIVE EventsInOrder(_, _)
EventsInOrder(lines, i) ==
  IF i > Len(lines) THEN <<>> ELSE LineEvents(lines[i]) \o EventsInOrder(lines, i + 1)

\* C6: the event callbacks are invoked in the order in which their `data: ` lines
\* stand in the stream: the sequence of event callbacks made so far is the sequence
\* of the events of the lines received so far, line by line, however the lines were
\* spread over chunks.
C6_DeliveredInStreamOrder ==
  \A c \in CallIds :
    stream[c] # "none" => Delivered(c) = EventsInOrder(CompleteLines(Received(c)), 1)

\* two events of different types have been delivered
C6_Witness ==
  /\ pc[1] = "read" /\ pos[1] = Len(body[1])
  /\ Len(EventCalls(calls[1])) = 2
  /\ calls[1][1].cb # calls[1][2].cb

\* the invocation after the text received so far has been handled as one chunk
InOneChunk(c) == ProcessChunk(Blank, Received(c))

\* C7: whatever the chunks the stream arrived in, the invocation is where it would
\* be had the text received so far arrived in one chunk: the same callbacks in the
\* same order, the same latch, the same retained buffer (and the same on closure
\* and on a failed read), so an envelope split across reads is dispatched once.
C7_ChunkingIrrelevant ==
  \A c \in CallIds :
    /\ stream[c] = "open" =>
         /\ St(c) = InOneChunk(c)
         /\ decoder[c] = DecodeStream(<<>>, SubSeq(body[c], 1, pos[c])).pending
    /\ stream[c] = "closed" => St(c) = AfterLoop(InOneChunk(c))
    /\ stream[c] = "errored" => \E m \in ReadErrors : St(c) = OuterCatch(InOneChunk(c), m)

\* a read has ended in the middle of a character of an envelope, after an earlier
\* event was delivered
C7_Witness ==
  /\ pc[1] = "read"
  /\ decoder[1] # <<>>
  /\ buffer[1] # <<>>
  /\ Len(calls[1]) >= 1

\* a malformed line: a `data: ` line whose payload is not JSON, or not an object
IsMalformed(line) ==
  IsDataLine(line) /\ LET r == JSONParse(Payload(line)) IN ~r.ok \/ r.val.kind # "obj"

HasMalformed(text) ==
  \E i \in 1..Len(CompleteLines(text)) : IsMalformed(CompleteLines(text)[i])

\* the text without its malformed lines
RECURSIVE JoinKept(_, _)
JoinKept(pieces, i) ==
  IF i = Len(pieces) THEN pieces[i]
  ELSE IF IsMalformed(pieces[i]) THEN JoinKept(pieces, i + 1)
  ELSE pieces[i] \o <<NL>> \o JoinKept(pieces, i + 1)

WithoutMalformed(text) == JoinKept(Split(text), 1)

ErrorEnvelopes(text) ==
  Cardinality({i \in 1..Len(CompleteLines(text)) :
                 GetProp(EnvelopeOf(CompleteLines(text)[i]), TypeKey) = Str(ErrorType)})

\* C8: a malformed `data: ` line invokes no onError and stops nothing: the callbacks
\* made are those of the same stream with the malformed lines taken out, while the
\* stream is read, when it closes and when a read fails, and onError has been
\* invoked only for `error` envelopes and for the failed read.
C8_MalformedLinesSkipped ==
  \A c \in CallIds :
    (stream[c] # "none" /\ HasMalformed(Received(c))) =>
      LET ref == ProcessChunk(Blank, WithoutMalformed(Received(c))) IN
      /\ stream[c] = "open" => calls[c] = ref.calls
      /\ stream[c] = "closed" => calls[c] = AfterLoop(ref).calls
      /\ stream[c] = "errored" => \E m \in ReadErrors : calls[c] = OuterCatch(ref, m).calls
      /\ Len(SelectSeq(calls[c], IsErrorCall))
           = ErrorEnvelopes(Received(c)) + (IF stream[c] = "errored" THEN 1 ELSE 0)

\* a line that is not JSON came first, the event after it was delivered and the
\* stream completed
C8_Witness ==
  /\ pc[1] = "done" /\ stream[1] = "closed"
  /\ body[1] = BrokenFrame \o LogFrame
  /\ calls[1] = << Invocation("onLog", Str(<<EAcute>>)), Invocation("onComplete", Undefined) >>

ScenarioCalls ==
  << Invocation("onLog", Str(<<"p", "a", "r", "s", "i", "n", "g">>)),
     Invocation("onBlueprint", Str(<<"0", "e", "N", "G", ".", ".", ".">>)),
     Invocation("onComplete", Undefined) >>

\* C9 as stated: the scenario stream framed as written, `data:` with no space before
\* the envelope, invokes onLog("parsing"), onBlueprint("0eNG..."), onComplete().
C9_AsWritten ==
  \A c \in CallIds :
    (pc[c] = "done" /\ stream[c] = "closed" /\ body[c] = NoSpaceScenarioStream) =>
      calls[c] = ScenarioCalls

\* C9, amended: the scenario stream framed with the `data: ` prefix invokes
\* onLog("parsing"), onBlueprint("0eNG..."), onComplete(), in that order and nothing
\* else; framed as written, without the space, it invokes onComplete() alone.
C9_ScenarioWithDataPrefix ==
  \A c \in CallIds :
    (pc[c] = "done" /\ stream[c] = "closed") =>
      /\ body[c] = ScenarioStream => calls[c] = ScenarioCalls
      /\ body[c] = NoSpaceScenarioStream => calls[c] = <<Invocation("onComplete", Undefined)>>

\* the scenario stream has been read to its end
C9_Witness ==
  /\ pc[1] = "done" /\ stream[1] = "closed"
  /\ body[1] = ScenarioStream
  /\ Len(calls[1]) = 3

\* the type each event callback stands for
CallbackType(cb) ==
  CASE cb = "onLog" -> LogType
    [] cb = "onBlueprint" -> BlueprintType
    [] cb = "onJson" -> JsonType
    [] cb = "onError" -> ErrorType
    [] cb = "onStatus" -> StatusType
    [] cb = "onQueue" -> QueueType

\* the arguments a callback was invoked with, in order
ArgsOf(q, cb) ==
  LET IsCb(e) == e.cb = cb
      own == SelectSeq(q, IsCb)
  IN [i \in 1..Len(own) |-> own[i].arg]

\* the contents of the envelopes of a type among the lines from the i-th on
RECURSIVE ContentsOfType(_, _, _)
ContentsOfType(lines, type, i) ==
  IF i > Len(lines) THEN <<>>
  ELSE
    LET e == EnvelopeOf(lines[i]) IN
    (IF GetProp(e, TypeKey) = Str(type) THEN <<GetProp(e, ContentKey)>> ELSE <<>>)
      \o ContentsOfType(lines, type, i + 1)

\* C10: every parsed envelope goes once to the callback of its type, with its
\* content, and to no other: each event callback has been invoked with exactly the
\* contents of the envelopes of its type received so far, in order; `end` envelopes
\* and the closure complete the invocation; lines without the prefix and envelopes
\* of other types invoke nothing.
C10_DispatchByType ==
  \A c \in CallIds :
    stream[c] \in {"open", "closed"} =>
      LET lines == CompleteLines(Received(c)) IN
      /\ \A cb \in EventCallbacks :
           ArgsOf(calls[c], cb) = ContentsOfType(lines, CallbackType(cb), 1)
      /\ Completions(calls[c])
           = (IF HasEnd(Received(c)) \/ stream[c] = "closed" THEN 1 ELSE 0)

\* an envelope of an unknown type came first and the event after it was delivered
C10_Witness ==
  /\ pc[1] = "done" /\ stream[1] = "closed"
  /\ body[1] = UnknownFrame \o QueueFrame
  /\ calls[1] = << Invocation("onQueue", Num(<<"3">>)), Invocation("onComplete", Undefined) >>

\* compileSync has settled on a response that is not 2xx
SyncNonSuccess == sync.pc = "settled" /\ sync.status # 0 /\ ~Ok(sync.status)

\* C11: compileSync returns a result only on a success status; on every status that
\* is not a success it fails with an error whose message is the `message` of the
\* body or, when the body has none, the generic message with the status code, and
\* nothing is returned.
C11_SyncFailsWithServerMessage ==
  /\ sync.outcome.state = "fulfilled" => Ok(sync.status)
  /\ SyncNonSuccess =>
       /\ sync.outcome.state = "rejected"
       /\ sync.outcome.value = Undefined
       /\ \/ sync.outcome.message = GenericMessage(sync.status)
          \/ /\ Truthy(BodyMessage(sync.body))
             /\ sync.outcome.message = ToText(BodyMessage(sync.body))

\* the promise of a probe was fulfilled with true
ProbeTrue(p) == probe[p].outcome = Fulfilled(JsBool(TRUE))
ProbeFalse(p) == probe[p].outcome = Fulfilled(JsBool(FALSE))

\* C12: the promises of checkHealth and connect are never rejected; each is
\* fulfilled with true exactly when its request was answered with a 2xx status,
\* and with false on every other status and when the fetch failed.
C12_ProbesNeverReject ==
  \A p \in ProbeNames :
    /\ probe[p].outcome.state # "rejected"
    /\ probe[p].pc = "settled" =>
         /\ Len(probe[p].requests) = 1
         /\ probe[p].requests[1].method = ProbeMethod(p)
         /\ ProbeTrue(p) <=> (probe[p].status # 0 /\ Ok(probe[p].status))
         /\ ProbeFalse(p) <=> (probe[p].status = 0 \/ ~Ok(probe[p].status))

\* checkHealth found the host unreachable and resolved to false, connect was
\* answered 204 and resolved to true
C12_Witness ==
  /\ probe["checkHealth"].pc = "settled" /\ probe["checkHealth"].status = 0
  /\ ProbeFalse("checkHealth")
  /\ probe["connect"].pc = "settled" /\ probe["connect"].status = 204
  /\ ProbeTrue("connect")

\* the invocation met a failure of the transport or a response that is not 2xx
NotOkAnswered(c) == pc[c] \in {"done", "rejected"} /\ status[c] # 0 /\ ~Ok(status[c])
FetchFailure(c) == pc[c] \in {"done", "rejected"} /\ status[c] = 0
Failed(c) == FetchFailure(c) \/ NotOkAnswered(c) \/ stream[c] = "errored"

\* a callback of the invocation throws
SomeThrows(c) == \E cb \in CallbackNames : callbacks[c][cb] = "throws"

\* compileSync met the same: its fetch rejected, or the response is not 2xx
SyncFetchFailure == sync.pc = "settled" /\ sync.status = 0

\* C15: a failed fetch, a failed read and a response that is not 2xx never reject
\* the promise of compileWithStreaming: with callbacks that return it is fulfilled
\* and the failure was handed to onError (the promise is rejected only by an
\* exception of the caller's own onError, after that onError was called), whereas
\* compileSync rejects on a failed fetch, with its error, and on a response that is
\* not 2xx.
C15_FailureChannels ==
  /\ \A c \in CallIds :
       /\ pc[c] = "rejected" => (callbacks[c]["onError"] = "throws" /\ Last(calls[c]).cb = "onError")
       /\ (Failed(c) /\ ~SomeThrows(c)) =>
            /\ pc[c] = "done"
            /\ Len(SelectSeq(calls[c], IsErrorCall)) = 1
            /\ FetchFailure(c) => IsFailureReport(calls[c][1], FetchErrors)
            /\ stream[c] = "errored" => \E i \in 1..Len(calls[c]) : IsFailureReport(calls[c][i], ReadErrors)
  /\ SyncFetchFailure => \E m \in FetchErrors : sync.outcome = Rejected(m)
  /\ SyncNonSuccess => sync.outcome.state = "rejected"

\* the same failed fetch on both paths: compileWithStreaming has returned after
\* onError and onComplete, compileSync has thrown
C15_Witness ==
  /\ FetchFailure(1) /\ pc[1] = "done" /\ Len(calls[1]) = 2
  /\ SyncFetchFailure /\ sync.outcome.state = "rejected"

\* the invocations among q of the callbacks that invocation c was given
Supplied(c, q) ==
  LET Given(e) == callbacks[c][e.cb] # "absent" IN SelectSeq(q, Given)

\* the messages the failure invocation c has met can come with
FailureMessages(c) ==
  CASE stream[c] = "errored" -> ReadErrors
    [] FetchFailure(c) -> FetchErrors
    [] NotOkAnswered(c) ->
         LET r == JSONParse(DecodeAll(body[c])) IN
         { ErrorMessage(IF r.ok THEN r.val ELSE Obj(<<>>), status[c]),
           ErrorMessage(Obj(<<>>), status[c]) }
    [] OTHER -> {<<>>}

\* what a caller that passes every callback gets for what invocation c has met so
\* far, m being the message of the failure if there was one
WithAllCallbacks(c, m) ==
  CASE stream[c] = "open" -> InOneChunk(c)
    [] stream[c] = "closed" -> AfterLoop(InOneChunk(c))
    [] stream[c] = "errored" -> OuterCatch(InOneChunk(c), m)
    [] Failed(c) -> OuterCatch(Blank, m)
    [] OTHER -> Blank

\* C16: whatever callbacks are left out, no exception comes of it: the function
\* is never left by an exception, the stream is read to the same end (the same
\* retained buffer, the same latch, the same return), and the callbacks that were
\* passed get the invocations they get when all are passed, in the same order.
C16_MissingCallbacksIgnored ==
  \A c \in CallIds :
    /\ pc[c] # "rejected"
    /\ \E m \in FailureMessages(c) :
         LET all == WithAllCallbacks(c, m) IN
         /\ calls[c] = Supplied(c, all.calls)
         /\ buffer[c] = all.buffer
         /\ completeCalled[c] = all.completeCalled
    /\ \A i \in 1..Len(calls[c]) : callbacks[c][calls[c][i].cb] = "returns"
    /\ pc[c] = "done" => completeCalled[c]

\* onBlueprint and onComplete were left out: the stream that ends with `end` was
\* read to its closure and onLog and onJson were invoked, in that order
C16_Witness ==
  /\ pc[1] = "done" /\ stream[1] = "closed"
  /\ Missing(callbacks[1]) = {"onBlueprint", "onComplete"}
  /\ Len(calls[1]) = 2
  /\ calls[1][1].cb = "onLog" /\ calls[1][2].cb = "onJson"

\* C17: an invocation of compileWithStreaming has issued exactly one request, the
\* POST to the compile endpoint, from its call on and whatever happened after it
\* (a response that is not 2xx, a failed fetch, a read failing in mid-stream), and
\* an invocation of compileSync exactly one, the POST to the sync endpoint.
C17_OneRequestPerCall ==
  /\ \A c \in CallIds :
       requests[c] = IF pc[c] = "idle" THEN <<>>
                     ELSE <<Request("POST", CompileEndpoint, SomeSource)>>
  /\ sync.requests = IF sync.pc = "idle" THEN <<>>
                     ELSE <<Request("POST", CompileSyncEndpoint, SomeSource)>>

\* a read failed in mid-stream and compileSync was answered with a status that is
\* not 2xx: each has sent its one request
C17_Witness ==
  /\ stream[1] = "errored" /\ pos[1] > 0 /\ pos[1] < Len(body[1])
  /\ Len(requests[1]) = 1
  /\ SyncNonSuccess /\ Len(sync.requests) = 1

\* the line carries an `error` envelope
IsErrorLine(line) == GetProp(EnvelopeOf(line), TypeKey) = Str(ErrorType)

HasErrorLine(text) ==
  \E i \in 1..Len(CompleteLines(text)) : IsErrorLine(CompleteLines(text)[i])

\* the text without the lines that carry an `error` envelope
RECURSIVE JoinOthers(_, _)
JoinOthers(pieces, i) ==
  IF i = Len(pieces) THEN pieces[i]
  ELSE IF IsErrorLine(pieces[i]) THEN JoinOthers(pieces, i + 1)
  ELSE pieces[i] \o <<NL>> \o JoinOthers(pieces, i + 1)

WithoutErrorLines(text) == JoinOthers(Split(text), 1)

IsOtherCall(e) == e.cb # "onError"

\* C18: an `error` envelope invokes onError and nothing more: it does not complete
\* the invocation (the latch is set only by an `end` envelope or the closure),
\* reading goes on, and all the other envelopes, those after it included, are
\* dispatched as they are in the same stream without the `error` envelopes.
C18_ErrorEnvelopeDoesNotEnd ==
  \A c \in CallIds :
    (stream[c] \in {"open", "closed"} /\ HasErrorLine(Received(c))) =>
      LET ref == ProcessChunk(Blank, WithoutErrorLines(Received(c))) IN
      /\ Len(SelectSeq(calls[c], IsErrorCall)) = ErrorEnvelopes(Received(c))
      /\ stream[c] = "open" =>
           /\ pc[c] = "read"
           /\ SelectSeq(calls[c], IsOtherCall) = ref.calls
           /\ completeCalled[c] = HasEnd(Received(c))
      /\ stream[c] = "closed" => SelectSeq(calls[c], IsOtherCall) = AfterLoop(ref).calls

\* an `error` envelope came first: the event after it was delivered, and
\* onComplete came with the closure
C18_Witness ==
  /\ pc[1] = "done" /\ stream[1] = "closed"
  /\ body[1] = ErrorFrame \o LogFrame
  /\ calls[1] = << Invocation("onError", Str(<<"x">>)), Invocation("onLog", Str(<<EAcute>>)),
                   Invocation("onComplete", Undefined) >>

\* the text joined again from its complete lines and the rest
RECURSIVE Joined(_, _, _)
Joined(lines, rest, i) ==
  IF i > Len(lines) THEN rest ELSE lines[i] \o <<NL>> \o Joined(lines, rest, i + 1)

\* C20: after every chunk the retained buffer holds no newline and is the part of
\* the text received so far that follows its last newline, the lines a newline has
\* ended and the buffer make up the text received, nothing twice and nothing
\* missing, and the callbacks are those of handling each of these lines once, in
\* order, and nothing of the buffer.
C20_LineBuffer ==
  \A c \in CallIds :
    stream[c] = "open" =>
      LET text == Received(c)
          lines == CompleteLines(text)
      IN
      /\ \A i \in 1..Len(buffer[c]) : buffer[c][i] # NL
      /\ buffer[c] = Last(Split(text))
      /\ Joined(lines, buffer[c], 1) = text
      /\ calls[c] = ProcessLines(Blank, lines, 1).calls

\* two lines have been handled and the start of a third is retained
C20_Witness ==
  /\ pc[1] = "read" /\ stream[1] = "open"
  /\ Len(CompleteLines(Received(1))) >= 2
  /\ buffer[1] # <<>> /\ Len(buffer[1]) < PrefixLen
  /\ Len(calls[1]) >= 1

\* C13: once handleCompile has set isCompiling, it becomes false again, whichever
\* way the compilation goes (an `end` envelope, the closure of the stream, a
\* response that is not 2xx, a failed fetch or read, an exception leaving
\* compileWithStreaming), every fetch and every read settling.
C13_NeverLeftCompiling == page.isCompiling ~> ~page.isCompiling

\* appendLog threw in onError after a failed fetch: the exception left
\* compileWithStreaming and the catch block of handleCompile reset isCompiling
C13_Witness ==
  /\ pc[1] = "rejected"
  /\ locals[1].pc = "returned" /\ locals[1].why = "caught"
  /\ ~page.isCompiling

\* the invocations of compileWithStreaming that have not returned yet
InFlight == {c \in CallIds : pc[c] \in {"fetch", "json", "read"}}

\* C14: whatever the order of the compile triggers, the health probes and the
\* events of the streams, at most one invocation of compileWithStreaming started
\* by handleCompile is in flight at any time.
C14_OneInvocationInFlight == Cardinality(InFlight) <= 1

\* a text of white space only
IsBlank(text) == \A i \in 1..Len(text) : text[i] \in TrimSpace

\* source is text without the white space at its two ends
IsTrimOf(source, text) ==
  /\ source # <<>> => source[1] \notin TrimSpace /\ source[Len(source)] \notin TrimSpace
  /\ \E before, after \in 0..Len(text) :
       /\ before + Len(source) + after = Len(text)
       /\ \A i \in 1..Len(text) :
            IF i > before /\ i <= before + Len(source)
            THEN text[i] = source[i - before]
            ELSE text[i] \in TrimSpace

\* handleCompile calls compileWithStreaming, for handler c
Compiles(c) == pc[c] = "idle" /\ pc'[c] = "fetch"

\* C19: when handleCompile calls compileWithStreaming, the editor does not hold
\* white space only and the request that goes out carries the text of the editor
\* without the white space at its ends, which is not empty; and isCompiling
\* becomes true on no step that finds the editor empty or blank.
C19_TrimmedSourceSent ==
  [][ /\ \A c \in CallIds :
           Compiles(c) =>
             /\ ~IsBlank(page.editor)
             /\ Len(requests'[c]) = 1
             /\ requests'[c][1].source # <<>>
             /\ IsTrimOf(requests'[c][1].source, page.editor)
      /\ (~page.isCompiling /\ page'.isCompiling) => ~IsBlank(page.editor) ]_vars

\* the editor held a source between blanks when handleCompile sent the source
C19_Witness ==
  /\ locals[1].pc = "compiling"
  /\ page.editor = <<" ", "x", "\n">>
  /\ page.isCompiling
  /\ requests[1] = <<Request("POST", CompileEndpoint, <<"x">>)>>

\* C21: for every stream, onComplete is the last callback of its invocation: no
\* callback is invoked once onComplete has been, neither for an envelope that
\* follows an `end` envelope nor for a read that fails after `end`.
C21_CompleteIsLast ==
  \A c \in CallIds :
    \A i \in 1..Len(calls[c]) : IsComplete(calls[c][i]) => i = Len(calls[c])

\* the callbacks of the lines a newline has ended, each handled once, in order
TerminatedCalls(c) == ProcessLines(Blank, CompleteLines(Received(c)), 1).calls

\* the text left in the buffer is an `end` envelope and no line before it was
UnterminatedEnd(c) == IsEndLine(buffer[c]) /\ ~HasEnd(Received(c))

\* C22: when the stream ends, the text still held in the buffer is neither parsed
\* nor dispatched: the buffer still holds it, the callbacks are those of the lines a
\* newline has ended, followed by the onComplete of the closure unless one of them
\* was an `end` envelope; and a last `end` envelope without its newline completes
\* nothing while the stream is open, the closure then invoking onComplete.
C22_UnterminatedTailIgnored ==
  \A c \in CallIds :
    /\ stream[c] = "closed" =>
         /\ buffer[c] = Last(Split(Received(c)))
         /\ EventCalls(calls[c]) = EventCalls(TerminatedCalls(c))
         /\ calls[c] = IF Completions(TerminatedCalls(c)) > 0 THEN TerminatedCalls(c)
                       ELSE Append(TerminatedCalls(c), Invocation("onComplete", Undefined))
    /\ (stream[c] = "open" /\ UnterminatedEnd(c)) =>
         Completions(calls[c]) = 0 /\ ~completeCalled[c]

\* the stream closed on a json line followed by a log envelope without a newline:
\* onJson and the closure's onComplete, and the log envelope still in the buffer
C22_Witness ==
  /\ stream[1] = "closed"
  /\ body[1] = JsonFrame \o OpenLogFrame
  /\ buffer[1] = OpenLogFrame
  /\ Len(calls[1]) = 2
  /\ calls[1][1].cb = "onJson"
  /\ calls[1][2].cb = "onComplete"

\* the callback cb of invocation c throws
Throws(c, cb) == callbacks[c][cb] = "throws"

\* C23: a callback that throws while a line is dispatched changes nothing but its
\* own effect.  While the stream is read the callbacks invoked are those a caller
\* whose callbacks all return would have got, line by line (no onError for the
\* exception, the later lines handled), the latch is set exactly when an `end`
\* envelope was handled, and the function goes on reading; and when the stream
\* closes after an `end` envelope, or with an onComplete that returns, the promise
\* is fulfilled, onComplete having been invoked once.
C23_CallbackExceptionAbsorbed ==
  \A c \in CallIds :
    /\ stream[c] = "open" =>
         /\ pc[c] = "read"
         /\ calls[c] = TerminatedCalls(c)
         /\ completeCalled[c] = HasEnd(Received(c))
    /\ (stream[c] = "closed" /\ (HasEnd(Received(c)) \/ ~Throws(c, "onComplete"))) =>
         /\ pc[c] = "done"
         /\ Completions(calls[c]) = 1
         /\ calls[c] = IF HasEnd(Received(c)) THEN TerminatedCalls(c)
                       ELSE Append(TerminatedCalls(c), Invocation("onComplete", Undefined))

\* onComplete threw when the `end` envelope was dispatched, after three events;
\* the stream then closed and the function returned
C23_Witness ==
  /\ Throws(1, "onComplete")
  /\ body[1] = LogFrame \o BlueprintFrame \o JsonFrame \o EndFrame
  /\ stream[1] = "closed"
  /\ pc[1] = "done"
  /\ Len(calls[1]) = 4
  /\ IsComplete(calls[1][4])

\* a trigger now would be answered 'Code unchanged': handleCompile would pass its
\* guards and find the key of the editor's source in lastCompiledSource, with a
\* blueprint in the field
WouldSkip ==
  /\ ~page.isCompiling
  /\ page.serverConnected
  /\ Trim(page.editor) # <<>>
  /\ page.lastCompiledSource = getCompilationKey(Trim(page.editor))
  /\ page.blueprintText # <<>>

\* C24: whenever handleCompile skips the compilation as 'Code unchanged', the
\* blueprint shown is the one a compilation of the editor's source produced,
\* whatever the order of the triggers, the changes of the editor and the events of
\* the streams.
C24_CacheSound == WouldSkip => page.blueprintText = BlueprintOf(Trim(page.editor))

\* C25: over any sequence of health probes connect() is called exactly once, at
\* the first probe that reports the backend healthy: never twice, and, the first
\* probe of the page having settled, once when a probe has reported the backend
\* healthy (the indicator shows 'connected' only then).
C25_SessionRecordedAtFirstHealthy ==
  /\ page.connects <= 1
  /\ (page.session # "health" /\ page.indicator = "connected") => page.connects = 1

\* no checkBackendHealth is waiting for its checkHealth(): not the first one, not
\* one of the timer or of onError, not the one of a handleCompile
NoProbeAwaiting ==
  /\ page.session # "health"
  /\ page.probes = 0
  /\ \A h \in CallIds : locals[h].pc # "health"

\* C26: serverConnected is true exactly when the indicator shows 'connected', and
\* when no checkBackendHealth is waiting for its answer the indicator shows
\* 'connected' or 'disconnected', whatever the order in which the probes of the
\* timer, of handleCompile and of onError started and settled.
C26_IndicatorConsistent ==
  /\ page.serverConnected <=> (page.indicator = "connected")
  /\ NoProbeAwaiting => page.indicator \in {"connected", "disconnected"}

\* a compilation failed on its fetch, onError showed 'disconnected' and started a
\* probe, which has reported the backend healthy like every probe before it
C26_Witness ==
  /\ locals[1].pc = "returned" /\ locals[1].hasError
  /\ pc[1] = "done" /\ status[1] = 0
  /\ NoProbeAwaiting
  /\ page.indicator = "connected"
  /\ page.serverConnected

====
